---- MODULE Spec2Model ----
(***************************************************************************)
(* Apple Music dashboard (apple-music-data-analysis/app.py).               *)
(*                                                                         *)
(* The script reads one CSV file, cleans it in load_data, and renders one  *)
(* of six pages chosen in the sidebar.  Every interaction re-runs the      *)
(* script: load_data is served from the cache and one page handler runs.   *)
(*                                                                         *)
(* Values.  A nullable cell is a sequence of length at most one: <<>> is   *)
(* NaN/NaT/None and <<v>> holds v.  The text of a genre cell is a sequence *)
(* of one-character strings, so that lower-casing and stripping are        *)
(* computed character by character.  A duration is the pair                *)
(* <<numerator, denominator>>.  Prices are counted in quarter units, so    *)
(* that the median of an even number of prices is a whole number.          *)
(***************************************************************************)
EXTENDS Integers, Sequences, FiniteSets, TLC

VARIABLES csv, pc, df, page, selected, shown, pie, error

vars == <<csv, pc, df, page, selected, shown, pie, error>>

(***************************************************************************)
(* Bounds of the model.                                                    *)
(***************************************************************************)
MaxRows == 3
MaxLen == 3

NaN == <<>>
Some(v) == <<v>>
IsNull(x) == x = <<>>
Val(x) == x[1]

(***************************************************************************)
(* Columns.                                                                *)
(***************************************************************************)
ExpectedColumns ==
    {"trackName", "artistName", "collectionName", "collectionId", "trackNumber",
     "trackCount", "primaryGenreName", "releaseDate", "contentAdvisoryRating",
     "collectionPrice", "trackPrice", "isStreamable", "trackTimeMillis",
     "trackExplicitness"}

\* The columns load_data reads (df['...'] on the right-hand side).
LoadColumns ==
    {"releaseDate", "primaryGenreName", "contentAdvisoryRating", "collectionPrice",
     "trackPrice", "isStreamable", "trackTimeMillis", "trackExplicitness"}

\* The columns load_data adds.
DerivedColumns ==
    {"trackTimeSec", "trackTimeMin", "releaseYear", "releaseMonth", "isExplicit"}

Pages == {"Overview", "Genres", "Artists", "Trends", "Explicit Content", "Albums"}

(***************************************************************************)
(* Sequences.                                                              *)
(***************************************************************************)
Range(s) == {s[i] : i \in DOMAIN s}

SeqsUpTo(S, n) == UNION {[1..k -> S] : k \in 0..n}

\* The indices of I as the increasing sequence.
RECURSIVE Ascending(_)
Ascending(I) ==
    IF I = {} THEN <<>>
    ELSE LET m == CHOOSE x \in I : \A y \in I : x <= y
         IN <<m>> \o Ascending(I \ {m})

Column(rows, c) == [i \in DOMAIN rows |-> rows[i][c]]

(***************************************************************************)
(* str.lower() and str.strip() on a sequence of characters.                *)
(***************************************************************************)
Whitespace == {" "}

LowerChar(c) ==
    CASE c = "P" -> "p"
      [] c = "O" -> "o"
      [] c = "R" -> "r"
      [] OTHER -> c

UpperChars == {"P", "O", "R"}

Lower(s) == [i \in DOMAIN s |-> LowerChar(s[i])]

RECURSIVE LStrip(_)
LStrip(s) ==
    IF s # <<>> /\ Head(s) \in Whitespace THEN LStrip(Tail(s)) ELSE s

RECURSIVE RStrip(_)
RStrip(s) ==
    IF s # <<>> /\ s[Len(s)] \in Whitespace
    THEN RStrip(SubSeq(s, 1, Len(s) - 1))
    ELSE s

\* str.lstrip() in place of str.strip().
Strip_LeftOnly(s) == LStrip(s)

Strip(s) == RStrip(LStrip(s))

\* df['primaryGenreName'].str.lower().str.strip() on one cell; NaN stays NaN.
NormalizeGenre(g) == IF IsNull(g) THEN NaN ELSE Some(Strip(Lower(Val(g))))

(***************************************************************************)
(* pd.to_datetime(..., errors='coerce') on one cell.  The text of a date   *)
(* cell is its year, month and day fields; a text that is no calendar date *)
(* inside the Timestamp range becomes NaT.                                 *)
(***************************************************************************)
MinYear == 1678
MaxYear == 2261

IsLeap(y) == (y % 4 = 0 /\ y % 100 # 0) \/ y % 400 = 0

DaysInMonth(y, m) ==
    IF m = 2 THEN (IF IsLeap(y) THEN 29 ELSE 28)
    ELSE IF m \in {4, 6, 9, 11} THEN 30 ELSE 31

ValidDate(d) ==
    /\ d.y >= MinYear /\ d.y <= MaxYear
    /\ d.m >= 1 /\ d.m <= 12
    /\ d.d >= 1 /\ d.d <= DaysInMonth(d.y, d.m)

\* Without errors='coerce' semantics: the cell is kept whatever it holds.
ToDatetime_NoCoerce(cell) == cell

ToDatetime(cell) ==
    IF IsNull(cell) THEN NaN
    ELSE IF ValidDate(Val(cell)) THEN cell ELSE NaN

\* .dt.year and .dt.month: NaT gives NaN.
DtYear(t) == IF IsNull(t) THEN NaN ELSE Some(Val(t).y)
DtMonth(t) == IF IsNull(t) THEN NaN ELSE Some(Val(t).m)

(***************************************************************************)
(* Series.median() and Series.fillna(value) on a numeric column.           *)
(***************************************************************************)
NonNull(col) == {i \in DOMAIN col : ~IsNull(col[i])}

\* The non-null values of col in non-decreasing order.
RECURSIVE SortedValues(_, _)
SortedValues(col, I) ==
    IF I = {} THEN <<>>
    ELSE LET m == CHOOSE i \in I : \A j \in I : Val(col[i]) <= Val(col[j])
         IN <<Val(col[m])>> \o SortedValues(col, I \ {m})

\* median() skips NaN; the median of no value is NaN.
Median(col) ==
    LET s == SortedValues(col, NonNull(col))
        n == Len(s)
    IN IF n = 0 THEN NaN
       ELSE IF n % 2 = 1 THEN Some(s[(n + 1) \div 2])
       ELSE Some((s[n \div 2] + s[n \div 2 + 1]) \div 2)

\* fillna(v, limit=1): only the first NaN cell becomes v.
FillNa_FirstOnly(col, v) ==
    [i \in DOMAIN col |->
        IF IsNull(col[i]) /\ \A j \in 1..(i - 1) : ~IsNull(col[j]) THEN v ELSE col[i]]

\* fillna(v): every NaN cell becomes v; fillna(NaN) changes nothing.
FillNa(col, v) == [i \in DOMAIN col |-> IF IsNull(col[i]) THEN v ELSE col[i]]

FillMedian(col) == FillNa(col, Median(col))

(***************************************************************************)
(* pd.read_csv.  An empty cell is NaN.  A column whose non-empty cells are *)
(* all boolean words is read as Python booleans; any other text column     *)
(* keeps its cells as strings.                                             *)
(***************************************************************************)
PyStr(s) == [type |-> "str", repr |-> s]
PyBool(b) == [type |-> "bool", repr |-> b]

TrueWords == {"true", "True", "TRUE"}
FalseWords == {"false", "False", "FALSE"}

\* The column is inferred as boolean: every non-empty cell is a boolean word.
InferBool(texts) == \A i \in DOMAIN texts : texts[i] \in TrueWords \cup FalseWords \cup {""}

ReadBoolCell(text, asBool) ==
    IF text = "" THEN NaN
    ELSE IF asBool THEN Some(PyBool(IF text \in TrueWords THEN "True" ELSE "False"))
    ELSE Some(PyStr(text))

ReadTextCell(text) == IF text = <<>> THEN NaN ELSE Some(text)

ReadCsv(file) ==
    LET asBool == "isStreamable" \in file.columns
                  /\ InferBool(Column(file.rows, "isStreamable"))
    IN [columns |-> file.columns,
        rows |-> [i \in DOMAIN file.rows |->
                    [c \in file.columns |->
                        CASE c = "isStreamable" -> ReadBoolCell(file.rows[i][c], asBool)
                          [] c = "primaryGenreName" -> ReadTextCell(file.rows[i][c])
                          [] OTHER -> file.rows[i][c]]]]

(***************************************************************************)
(* load_data, column by column.                                            *)
(***************************************************************************)
\* df['isStreamable'].fillna("true").map({'true': 1, 'false': 0}) on one cell:
\* a value that is no key of the dictionary maps to NaN.
MapStreamable(cell) ==
    LET filled == IF IsNull(cell) THEN Some(PyStr("true")) ELSE cell
    IN IF Val(filled) = PyStr("true") THEN Some(1)
       ELSE IF Val(filled) = PyStr("false") THEN Some(0)
       ELSE NaN

\* The comparison made on the lower-cased value.
ExplicitFlag_IgnoreCase(x) == IF x \in {Some("explicit"), Some("Explicit")} THEN 1 ELSE 0

\* lambda x: 1 if x == "explicit" else 0
ExplicitFlag(x) == IF x = Some("explicit") THEN 1 ELSE 0

\* trackTimeMillis / 1000 and (trackTimeMillis / 1000) / 60, as fractions.
TimeSec(ms) == IF IsNull(ms) THEN NaN ELSE Some(<<Val(ms), 1000>>)
TimeMin(ms) == IF IsNull(ms) THEN NaN ELSE Some(<<Val(ms), 1000 * 60>>)

FillRating(r) == IF IsNull(r) THEN Some("clean") ELSE r

\* The .str accessor exists only on a column of strings: a non-empty column
\* whose cells are all NaN is a float column.
HasStrAccessor(col) == Len(col) = 0 \/ \E i \in DOMAIN col : ~IsNull(col[i])

\* The first failure of load_data on table t, "" when it returns.
LoadError(t) ==
    IF ~(LoadColumns \subseteq t.columns) THEN "KeyError"
    ELSE IF ~HasStrAccessor(Column(t.rows, "primaryGenreName")) THEN "AttributeError"
    ELSE ""

\* The table load_data returns for t (LoadError(t) = "").
CleanRows(t) ==
    LET collectionPrice == FillMedian(Column(t.rows, "collectionPrice"))
        trackPrice == FillMedian(Column(t.rows, "trackPrice"))
    IN [i \in DOMAIN t.rows |->
          LET r == t.rows[i]
              releaseDate == ToDatetime(r.releaseDate)
          IN [c \in t.columns \cup DerivedColumns |->
                CASE c = "releaseDate" -> releaseDate
                  [] c = "primaryGenreName" -> NormalizeGenre(r.primaryGenreName)
                  [] c = "contentAdvisoryRating" -> FillRating(r.contentAdvisoryRating)
                  [] c = "collectionPrice" -> collectionPrice[i]
                  [] c = "trackPrice" -> trackPrice[i]
                  [] c = "isStreamable" -> MapStreamable(r.isStreamable)
                  [] c = "trackTimeSec" -> TimeSec(r.trackTimeMillis)
                  [] c = "trackTimeMin" -> TimeMin(r.trackTimeMillis)
                  [] c = "releaseYear" -> DtYear(releaseDate)
                  [] c = "releaseMonth" -> DtMonth(releaseDate)
                  [] c = "isExplicit" -> ExplicitFlag(r.trackExplicitness)
                  [] OTHER -> r[c]]]

load_data(file) ==
    LET t == ReadCsv(file)
    IN IF LoadError(t) # ""
       THEN [error |-> LoadError(t), columns |-> {}, rows |-> <<>>]
       ELSE [error |-> "", columns |-> t.columns \cup DerivedColumns,
             rows |-> CleanRows(t)]

NoTable == [columns |-> {}, rows |-> <<>>]

(***************************************************************************)
(* Helpers of the page handlers.                                           *)
(***************************************************************************)
\* Series.unique(): the distinct cells of a column, NaN included.
Unique(col) == Range(col)

\* The number of rows whose cell equals v.
Count(col, v) == Cardinality({i \in DOMAIN col : col[i] = v})

\* Series.value_counts(): one <<value, count>> entry per distinct non-null
\* value, larger counts first; the order among equal counts is not fixed.
IsValueCounts(vc, col) ==
    /\ \A k \in DOMAIN vc : vc[k] = <<vc[k][1], Count(col, vc[k][1])>>
    /\ {vc[k][1] : k \in DOMAIN vc} = Unique(col) \ {NaN}
    /\ \A k \in 1..(Len(vc) - 1) : vc[k][2] >= vc[k + 1][2]

ValueCounts(col) ==
    LET vals == Unique(col) \ {NaN}
        n == Cardinality(vals)
    IN {vc \in [1..n -> {<<v, Count(col, v)>> : v \in vals}] : IsValueCounts(vc, col)}

\* value_counts().head(n).index as a set, for fewer than n distinct values.
TopValues(col, n) ==
    {v \in Unique(col) \ {NaN} :
        Cardinality({w \in Unique(col) \ {NaN} : Count(col, w) > Count(col, v)}) < n}

\* sorted(values) raises TypeError when it compares NaN (a float) with a str.
SortedRaises(values) == NaN \in values /\ Cardinality(values) >= 2

\* The mask inverted: the rows whose cell differs from v.
Matching_Inverted(rows, c, v) == Ascending({i \in DOMAIN rows : rows[i][c] # v})

\* df[df[c] == v]: the indices of the rows whose cell equals v, in row
\* order; NaN equals nothing.
Matching(rows, c, v) ==
    Ascending({i \in DOMAIN rows : ~IsNull(v) /\ rows[i][c] = v})

\* frame[[columns]] on the rows with indices idx: the index is kept.
Project(rows, idx, columns) ==
    [k \in DOMAIN idx |->
        [index |-> idx[k], row |-> [c \in columns |-> rows[idx[k]][c]]]]

\* Python's order on the collection names of the model.
NameOrder == <<"Abbey", "Blue">>
NameRank(name) == CHOOSE k \in DOMAIN NameOrder : NameOrder[k] = Val(name)

\* Row i sorts before row j under sort_values(['collectionName', 'trackNumber']);
\* the sort is stable.
SortsBefore(rows, i, j) ==
    LET ni == NameRank(rows[i].collectionName)
        nj == NameRank(rows[j].collectionName)
        ti == Val(rows[i].trackNumber)
        tj == Val(rows[j].trackNumber)
    IN \/ ni < nj
       \/ ni = nj /\ ti < tj
       \/ ni = nj /\ ti = tj /\ i < j

RECURSIVE SortValues(_, _)
SortValues(rows, I) ==
    IF I = {} THEN <<>>
    ELSE LET m == CHOOSE i \in I : \A j \in I \ {i} : SortsBefore(rows, i, j)
         IN <<m>> \o SortValues(rows, I \ {m})

PieLabels == <<"Non-Explicit", "Explicit">>

\* ax.pie(x, labels=...) pairs the labels with the values by position and
\* raises ValueError unless there are as many labels as values.
PieRaises(x) == Len(x) # Len(PieLabels)
Pie(x) == [k \in DOMAIN x |-> [label |-> PieLabels[k], size |-> x[k][2]]]

\* A handler fails with KeyError on the first column it reads that df lacks.
Missing(columns) == ~(columns \subseteq df.columns)

(***************************************************************************)
(* The CSV files of the model.                                             *)
(***************************************************************************)
Date(y, m, d) == Some([y |-> y, m |-> m, d |-> d])

RawRow(track, artist, album, albumId, number, count, genre, date, rating, cPrice, tPrice, streamable, millis, explicitness) ==
    [trackName |-> Some(track), artistName |-> Some(artist),
     collectionName |-> Some(album), collectionId |-> Some(albumId),
     trackNumber |-> Some(number), trackCount |-> Some(count),
     primaryGenreName |-> genre, releaseDate |-> date,
     contentAdvisoryRating |-> rating, collectionPrice |-> cPrice,
     trackPrice |-> tPrice, isStreamable |-> streamable,
     trackTimeMillis |-> millis, trackExplicitness |-> explicitness]

RawRows ==
    {RawRow("t1", "a1", "Abbey", 1, 1, 2, <<"P", "o", "p">>, Date(2020, 2, 29), NaN,
            Some(4), Some(4), "true", Some(210000), Some("explicit")),
     RawRow("t2", "a1", "Abbey", 1, 2, 2, <<" ", "p", "o", "p", " ">>, Date(2019, 2, 29),
            Some("explicit"), NaN, Some(8), "false", Some(180000), Some("notExplicit")),
     RawRow("t3", "a2", "Blue", 2, 1, 1, <<>>, NaN, NaN,
            Some(8), NaN, "", NaN, NaN),
     RawRow("t4", "a2", "Blue", 2, 2, 1, <<"R", "o">>, Date(2021, 13, 1), NaN,
            Some(16), NaN, "yes", Some(60000), Some("Explicit")),
     RawRow("t5", "a1", "Blue", 2, 1, 1, <<"P", "O", "P", " ">>, Date(0, 0, 0), Some("clean"),
            NaN, NaN, "True", Some(1000), Some("cleaned")),
     RawRow("t6", "a2", "Abbey", 1, 3, 2, <<" ">>, Date(1999, 12, 31), NaN,
            Some(12), Some(16), "false", Some(90000), Some("explicit")),
     RawRow("t7", "a1", "Abbey", 1, 1, 2, <<"r", "o">>, Date(2020, 11, 30), NaN,
            NaN, Some(12), "", Some(240000), Some("notExplicit"))}

BaseRow == RawRow("t1", "a1", "Abbey", 1, 1, 2, <<"P", "o", "p">>, Date(2020, 2, 29), NaN,
                  Some(4), Some(4), "true", Some(210000), Some("explicit"))

\* Every genre text of at most MaxLen characters over a small alphabet.
GenreAlphabet == {"P", "p", " "}
GenreTexts == SeqsUpTo(GenreAlphabet, MaxLen)
GenreRows == {[BaseRow EXCEPT !.primaryGenreName = g] : g \in GenreTexts}

\* The file with the expected columns, or with one of them missing.
ColumnSets == {ExpectedColumns} \cup {ExpectedColumns \ {c} : c \in ExpectedColumns}

Tables(R, n) == SeqsUpTo(R, n) \ {<<>>}

CsvFile(columns, rows) ==
    [columns |-> columns,
     rows |-> [i \in DOMAIN rows |-> [c \in columns |-> rows[i][c]]]]

InitWith(files) ==
    /\ csv \in files
    /\ pc = "start"
    /\ df = NoTable
    /\ page = ""
    /\ selected = NaN
    /\ shown = <<>>
    /\ pie = <<>>
    /\ error = ""

Init == InitWith({CsvFile(ExpectedColumns, rows) : rows \in Tables(RawRows, MaxRows)})

InitSchema ==
    InitWith({CsvFile(columns, rows) : columns \in ColumnSets, rows \in Tables(RawRows, MaxRows)})

InitGenre ==
    InitWith({CsvFile(ExpectedColumns, rows) : rows \in Tables(GenreRows, 2)})

(***************************************************************************)
(* The script: df = load_data() at startup, then one page per run.  A file *)
(* has at least one row.  A handler stops at its first exception, which    *)
(* Streamlit shows in place of the rest of the page.  The exceptions       *)
(* modelled are the KeyError of a missing column, the TypeError of         *)
(* sorted() and the ValueError of ax.pie; the other chart calls are taken  *)
(* to return.                                                              *)
(***************************************************************************)
Load ==
    /\ pc = "start"
    /\ LET res == load_data(csv)
       IN /\ error' = res.error
          /\ df' = [columns |-> res.columns, rows |-> res.rows]
          /\ pc' = IF res.error = "" THEN "ready" ELSE "failed"
    /\ UNCHANGED <<csv, page, selected, shown, pie>>

\* What one run of a page handler leaves on the screen.
Render(p, sel, table, chart, err) ==
    /\ page' = p
    /\ selected' = sel
    /\ shown' = table
    /\ pie' = chart
    /\ error' = err
    /\ UNCHANGED <<csv, pc, df>>

Overview ==
    /\ pc = "ready"
    /\ Render("Overview", NaN,
              Project(df.rows, Ascending({i \in DOMAIN df.rows : i <= 5}), df.columns),
              <<>>, "")

Genres ==
    /\ pc = "ready"
    /\ LET genres == Unique(Column(df.rows, "primaryGenreName"))
       IN IF SortedRaises(genres)
          THEN Render("Genres", NaN, <<>>, <<>>, "TypeError")
          ELSE \E selected_genre \in genres :
                 LET filtered == Matching(df.rows, "primaryGenreName", selected_genre)
                     columns == {"trackName", "artistName", "releaseYear", "trackTimeMin"}
                 IN IF Missing(columns)
                    THEN Render("Genres", selected_genre, <<>>, <<>>, "KeyError")
                    ELSE Render("Genres", selected_genre,
                                Project(df.rows, filtered, columns), <<>>, "")

Artists ==
    /\ pc = "ready"
    /\ IF Missing({"artistName"})
       THEN Render("Artists", NaN, <<>>, <<>>, "KeyError")
       ELSE \E selected_artist \in TopValues(Column(df.rows, "artistName"), 100) :
              LET artist_df == Matching(df.rows, "artistName", selected_artist)
                  columns == {"trackName", "collectionName", "releaseYear", "trackTimeMin"}
              IN IF Missing(columns)
                 THEN Render("Artists", selected_artist, <<>>, <<>>, "KeyError")
                 ELSE Render("Artists", selected_artist,
                             Project(df.rows, artist_df, columns), <<>>, "")

Trends ==
    /\ pc = "ready"
    /\ Render("Trends", NaN, <<>>, <<>>, "")

ExplicitContent ==
    /\ pc = "ready"
    /\ \E explicit_counts \in
            ValueCounts([i \in DOMAIN df.rows |-> Some(df.rows[i].isExplicit)]) :
         IF PieRaises(explicit_counts)
         THEN Render("Explicit Content", NaN, <<>>, <<>>, "ValueError")
         ELSE Render("Explicit Content", NaN, <<>>, Pie(explicit_counts), "")

\* Albums with the sort done on df itself (sort_values(..., inplace=True)).
Albums_InPlace ==
    /\ pc = "ready"
    /\ ~Missing(ExpectedColumns)
    /\ \E selected_artist \in Unique(Column(df.rows, "artistName")) \ {NaN} :
         LET order == SortValues(df.rows, DOMAIN df.rows)
             sorted == [k \in DOMAIN order |-> df.rows[order[k]]]
         IN /\ df' = [df EXCEPT !.rows = sorted]
            /\ page' = "Albums"
            /\ selected' = selected_artist
            /\ shown' = Project(sorted, Matching(sorted, "artistName", selected_artist),
                                {"collectionName", "trackName", "trackNumber"})
            /\ pie' = <<>>
            /\ error' = ""
            /\ UNCHANGED <<csv, pc>>

Albums ==
    /\ pc = "ready"
    /\ IF Missing({"collectionId", "trackCount", "artistName"})
       THEN Render("Albums", NaN, <<>>, <<>>, "KeyError")
       ELSE \E selected_artist \in Unique(Column(df.rows, "artistName")) \ {NaN} :
              LET columns == {"collectionName", "trackName", "trackNumber"}
                  adf == Matching(df.rows, "artistName", selected_artist)
              IN IF Missing(columns)
                 THEN Render("Albums", selected_artist, <<>>, <<>>, "KeyError")
                 ELSE Render("Albums", selected_artist,
                             Project(df.rows, SortValues(df.rows, Range(adf)), columns),
                             <<>>, "")

Next ==
    \/ Load
    \/ Overview
    \/ Genres
    \/ Artists
    \/ Trends
    \/ ExplicitContent
    \/ Albums

Spec == Init /\ [][Next]_vars

SpecSchema == InitSchema /\ [][Next]_vars

SpecGenre == InitGenre /\ [][Next]_vars

(***************************************************************************)
(* Properties.                                                             *)
(***************************************************************************)
Rows == DOMAIN csv.rows

\* The column c of the file as read_csv types it.
RawColumn(c) == Column(ReadCsv(csv).rows, c)

\* C1: if any one of the fourteen expected columns is missing from the CSV,
\* load_data fails at startup and no page is ever rendered.
C1_MissingColumnIsFatal ==
    csv.columns # ExpectedColumns => pc # "ready" /\ page = ""

\* C2: for every table load_data returns, rows with nulls included, each of
\* the six pages renders without raising an error.
C2_RenderingNeverRaises ==
    (pc = "ready" /\ csv.columns = ExpectedColumns /\ page \in Pages) => error = ""

\* C3: after load_data, isStreamable is 1 where the file held no value or
\* "true", and 0 where the file held "false"; it is never null there.
C3_StreamableIsOneOrZero ==
    (pc = "ready") =>
        \A i \in Rows :
            /\ csv.rows[i].isStreamable \in {"", "true"} => df.rows[i].isStreamable = Some(1)
            /\ csv.rows[i].isStreamable = "false" => df.rows[i].isStreamable = Some(0)

\* C4: after load_data, isExplicit is 0 or 1 in every row, and it is 1
\* exactly when the row's trackExplicitness is the string "explicit".
C4_IsExplicitIffExplicit ==
    (pc = "ready") =>
        \A i \in Rows :
            /\ df.rows[i].isExplicit \in {0, 1}
            /\ df.rows[i].isExplicit = 1 <=> df.rows[i].trackExplicitness = <<"explicit">>

C4_Witness ==
    /\ pc = "ready"
    /\ \E i \in Rows : df.rows[i].isExplicit = 1
    /\ \E i \in Rows : df.rows[i].trackExplicitness = <<"Explicit">> /\ df.rows[i].isExplicit = 0
    /\ \E i \in Rows : df.rows[i].trackExplicitness = NaN /\ df.rows[i].isExplicit = 0

\* Two characters that are one letter in either case.
CasePairs == {<<"P", "p">>, <<"O", "o">>, <<"R", "r">>}
SameLetter(x, y) == x = y \/ <<x, y>> \in CasePairs \/ <<y, x>> \in CasePairs

\* The text a is padding, a core of n characters from position p + 1, padding.
IsPadded(a, p, n) ==
    /\ p + n <= Len(a)
    /\ \A k \in 1..Len(a) : (k <= p \/ k > p + n) => a[k] \in Whitespace

\* The texts a and b differ only in letter case and in the whitespace around them.
SameUpToCaseAndPadding(a, b) ==
    \E n \in 0..Len(a), p \in 0..Len(a), q \in 0..Len(b) :
        /\ IsPadded(a, p, n)
        /\ IsPadded(b, q, n)
        /\ \A k \in 1..n : SameLetter(a[p + k], b[q + k])

\* C5: after load_data, a non-null primaryGenreName has no whitespace at
\* either end and no uppercase character, and two genre texts that differ
\* only in case and surrounding whitespace have the same primaryGenreName.
C5_GenreNormalized ==
    (pc = "ready") =>
        /\ \A i \in Rows :
              LET g == df.rows[i].primaryGenreName
              IN ~IsNull(g) =>
                   /\ \A k \in DOMAIN Val(g) : Val(g)[k] \notin UpperChars
                   /\ Val(g) # <<>> =>
                        Val(g)[1] \notin Whitespace /\ Val(g)[Len(Val(g))] \notin Whitespace
        /\ \A i, j \in Rows :
              LET a == csv.rows[i].primaryGenreName
                  b == csv.rows[j].primaryGenreName
              IN (a # <<>> /\ b # <<>> /\ SameUpToCaseAndPadding(a, b)) =>
                   df.rows[i].primaryGenreName = df.rows[j].primaryGenreName

C5_Witness ==
    /\ pc = "ready"
    /\ \E i, j \in Rows :
         /\ csv.rows[i].primaryGenreName = <<" ", "P", " ">>
         /\ csv.rows[j].primaryGenreName = <<"p">>
         /\ df.rows[i].primaryGenreName = Some(<<"p">>)
         /\ df.rows[j].primaryGenreName = Some(<<"p">>)

PriceColumns == {"collectionPrice", "trackPrice"}

\* C6: filling a price column of the loaded table with its median once more
\* changes nothing; a column without nulls is loaded as it was read, and a
\* column of nulls only stays a column of nulls.
C6_MedianFillIdempotent ==
    (pc = "ready") =>
        \A c \in PriceColumns :
            /\ FillMedian(Column(df.rows, c)) = Column(df.rows, c)
            /\ NonNull(RawColumn(c)) = Rows => Column(df.rows, c) = RawColumn(c)
            /\ NonNull(RawColumn(c)) = {} => Column(df.rows, c) = RawColumn(c)

C6_Witness ==
    /\ pc = "ready"
    /\ \E c \in PriceColumns :
         /\ Rows \ NonNull(RawColumn(c)) # {}
         /\ NonNull(RawColumn(c)) # {}
         /\ NonNull(Column(df.rows, c)) = Rows
    /\ \E c \in PriceColumns :
         /\ NonNull(RawColumn(c)) = {}
         /\ NonNull(Column(df.rows, c)) = {}
    /\ \E c \in PriceColumns, i \in Rows :
         /\ IsNull(RawColumn(c)[i])
         /\ \A j \in Rows : df.rows[i][c] # RawColumn(c)[j]

\* C7: a date text that cannot be parsed does not make load_data fail; the
\* row's releaseDate, releaseYear and releaseMonth are null, the rows with a
\* date keep it with its year and month, and in every row releaseYear and
\* releaseMonth are null exactly when releaseDate is.
C7_BadDateBecomesNull ==
    /\ pc = "failed" => \A i \in Rows : IsNull(RawColumn("primaryGenreName")[i])
    /\ pc = "ready" =>
         \A i \in Rows :
            LET raw == csv.rows[i].releaseDate
                r == df.rows[i]
            IN /\ (~IsNull(raw) /\ ~ValidDate(Val(raw))) =>
                     IsNull(r.releaseDate) /\ IsNull(r.releaseYear) /\ IsNull(r.releaseMonth)
               /\ (~IsNull(raw) /\ ValidDate(Val(raw))) =>
                     /\ r.releaseDate = raw
                     /\ r.releaseYear = Some(Val(raw).y)
                     /\ r.releaseMonth = Some(Val(raw).m)
               /\ IsNull(r.releaseYear) <=> IsNull(r.releaseDate)
               /\ IsNull(r.releaseMonth) <=> IsNull(r.releaseDate)

C7_Witness ==
    /\ pc = "ready"
    /\ \E i, j \in Rows :
         /\ csv.rows[i].releaseDate = Date(2021, 13, 1)
         /\ IsNull(df.rows[i].releaseDate)
         /\ IsNull(df.rows[i].releaseYear)
         /\ df.rows[j].releaseYear = Some(2020)
         /\ df.rows[j].releaseMonth = Some(2)

GenresColumns == {"trackName", "artistName", "releaseYear", "trackTimeMin"}

\* C8: on the Genres page the table shown for the selected genre holds
\* exactly the rows of the loaded table whose primaryGenreName is that
\* genre, each once, in the order of the loaded table.
C8_GenreFilterExact ==
    (page = "Genres" /\ error = "") =>
        /\ \E i \in Rows : df.rows[i].primaryGenreName = selected
        /\ {shown[k].index : k \in DOMAIN shown}
              = {i \in Rows : df.rows[i].primaryGenreName = selected}
        /\ \A k \in 1..(Len(shown) - 1) : shown[k].index < shown[k + 1].index
        /\ \A k \in DOMAIN shown :
              shown[k].row = [c \in GenresColumns |-> df.rows[shown[k].index][c]]

C8_Witness ==
    /\ page = "Genres"
    /\ error = ""
    /\ Len(shown) = 2
    /\ Len(df.rows) = 3
    /\ shown[1].index = 1
    /\ shown[2].index = 3

\* C9: once load_data has returned, no run of a page handler changes the
\* loaded table or the file.
C9_TableImmutable == [][pc = "ready" => df' = df /\ csv' = csv]_vars

C9_Witness ==
    /\ page = "Albums"
    /\ error = ""
    /\ Len(shown) >= 2
    /\ shown[1].index > shown[2].index
    /\ df.rows = CleanRows(ReadCsv(csv))

\* C10: on the Explicit Content page the slice labelled "Explicit" has the
\* size of the number of rows with isExplicit = 1 and the slice labelled
\* "Non-Explicit" the number of rows with isExplicit = 0.
C10_PieSlicesMatchLabels ==
    (page = "Explicit Content") =>
        /\ error = ""
        /\ \E k \in DOMAIN pie :
             /\ pie[k].label = "Explicit"
             /\ pie[k].size = Cardinality({i \in Rows : df.rows[i].isExplicit = 1})
        /\ \E k \in DOMAIN pie :
             /\ pie[k].label = "Non-Explicit"
             /\ pie[k].size = Cardinality({i \in Rows : df.rows[i].isExplicit = 0})

====
